---- MODULE Spec2Model ----
(***************************************************************************)
(* Model of tal/enums.py: the enumerations FileFormat, HFormat,            *)
(* GridFormat, VolumeFormat and CameraSystem, their methods, and the       *)
(* callers that hold one member of each and invoke the methods on it.      *)
(*                                                                         *)
(* A method call is modelled as Python performs it: the attribute is       *)
(* looked up in the class body (AttributeError when the class does not     *)
(* define it), then the body runs; an `assert` whose condition is false    *)
(* raises AssertionError, and `x in [a, b, ...]` scans the list.           *)
(* The outcome of the last call is kept in `ret`.                          *)
(***************************************************************************)
EXTENDS Naturals, Sequences, FiniteSets

VARIABLES
    cam,            \* the CameraSystem member the engine is configured with
    cam0,           \* the member that was selected when the run was configured
    first,          \* first[q]: {} until query q is called on cam, then {its first result}
    prev,           \* the member of the previous run and the flags it answered
    ncalls,         \* number of queries made in the current run
    hfmt,           \* the HFormat member tagging the impulse response
    gfmt,           \* the GridFormat member tagging the sensor/laser grid
    vfmt,           \* the VolumeFormat member tagging the volume
    declaredFormat, \* the FileFormat member the loader was told
    fileExt,        \* extension of the capture file
    fileMarker,     \* the format whose structural markers the file contains
    ret             \* outcome of the last call: [op, outcome, val]

camVars    == <<cam, cam0, first, prev, ncalls>>
layoutVars == <<hfmt, gfmt, vfmt>>
formatVars == <<declaredFormat, fileExt, fileMarker>>
vars       == <<cam, cam0, first, prev, ncalls, hfmt, gfmt, vfmt,
                declaredFormat, fileExt, fileMarker, ret>>

(***************************************************************************)
(* The enumerations: members in declaration order.                         *)
(***************************************************************************)
FileFormat ==
    <<"AUTODETECT", "HDF5_ZNLOS", "HDF5_NLOS_DIRAC", "HDF5_TAL",
      "MAT_PHASOR_FIELDS", "MAT_PHASOR_FIELD_DIFFRACTION">>

HFormat == <<"UNKNOWN", "T_Sx_Sy", "T_Lx_Ly_Sx_Sy", "T_Si", "T_Li_Si">>

GridFormat == <<"UNKNOWN", "N_3", "X_Y_3">>

VolumeFormat == <<"UNKNOWN", "N_3", "X_Y_Z_3", "X_Y_3">>

CameraSystem ==
    <<"DIRECT_LIGHT", "CONFOCAL_TIME_GATED", "PROJECTOR_CAMERA",
      "PROJECTOR_CAMERA_T0", "TRANSIENT", "TRANSIENT_T0">>

Members(enum) == {enum[i] : i \in DOMAIN enum}

(***************************************************************************)
(* Python plumbing.                                                        *)
(***************************************************************************)
\* `x in [a, b, ...]`: a scan of the list comparing each element with x
Contains(list, x) == \E i \in DOMAIN list : list[i] = x

Return(op, v) == [op |-> op, outcome |-> "return", val |-> v]
Raise(op, e)  == [op |-> op, outcome |-> "raise", val |-> e]
NoCall        == [op |-> "none", outcome |-> "none", val |-> "none"]

\* the methods each class body defines
Methods ==
    [FileFormat   |-> {},
     HFormat      |-> {"time_dim"},
     GridFormat   |-> {},
     VolumeFormat |-> {"xyz_dim_is_last"},
     CameraSystem |-> {"bp_accounts_for_d_2", "is_transient",
                       "implements_projector"}]

(***************************************************************************)
(* HFormat.time_dim                                                        *)
(***************************************************************************)
time_dim_NoAssert(self) ==
    Return("HFormat.time_dim", 0)

time_dim_ShortList(self) ==
    IF Contains(<<"T_Sx_Sy", "T_Lx_Ly_Sx_Sy", "T_Si">>, self)
    THEN Return("HFormat.time_dim", 0)
    ELSE Raise("HFormat.time_dim", "AssertionError")

time_dim(self) ==
    IF Contains(<<"T_Sx_Sy", "T_Lx_Ly_Sx_Sy", "T_Si", "T_Li_Si">>, self)
    THEN Return("HFormat.time_dim", 0)
    ELSE Raise("HFormat.time_dim", "AssertionError")

(***************************************************************************)
(* VolumeFormat.xyz_dim_is_last                                            *)
(***************************************************************************)
xyz_dim_is_last_NoAssert(self) ==
    Return("VolumeFormat.xyz_dim_is_last", TRUE)

xyz_dim_is_last(self) ==
    IF Contains(<<"N_3", "X_Y_Z_3", "X_Y_3">>, self)
    THEN Return("VolumeFormat.xyz_dim_is_last", TRUE)
    ELSE Raise("VolumeFormat.xyz_dim_is_last", "AssertionError")

(***************************************************************************)
(* CameraSystem's three queries                                            *)
(***************************************************************************)
bp_accounts_for_d_2_NoProjectorT0(self) ==
    Contains(<<"DIRECT_LIGHT", "PROJECTOR_CAMERA",
               "CONFOCAL_TIME_GATED">>, self)

bp_accounts_for_d_2(self) ==
    Contains(<<"DIRECT_LIGHT", "PROJECTOR_CAMERA", "PROJECTOR_CAMERA_T0",
               "CONFOCAL_TIME_GATED">>, self)

is_transient_WithT0(self) ==
    Contains(<<"TRANSIENT", "TRANSIENT_T0", "CONFOCAL_TIME_GATED",
               "PROJECTOR_CAMERA">>, self)

is_transient(self) ==
    Contains(<<"TRANSIENT", "CONFOCAL_TIME_GATED", "PROJECTOR_CAMERA">>, self)

implements_projector_OnlyBase(self) ==
    Contains(<<"PROJECTOR_CAMERA">>, self)

implements_projector(self) ==
    Contains(<<"PROJECTOR_CAMERA", "PROJECTOR_CAMERA_T0">>, self)

(***************************************************************************)
(* Method lookup followed by the call, `member.name()`.                    *)
(***************************************************************************)
Invoke(cls, self, name) ==
    IF name \notin Methods[cls]
    THEN Raise(cls \o "." \o name, "AttributeError")
    ELSE CASE cls = "HFormat" /\ name = "time_dim" -> time_dim(self)
           [] cls = "VolumeFormat" /\ name = "xyz_dim_is_last" ->
                  xyz_dim_is_last(self)
           [] cls = "CameraSystem" /\ name = "bp_accounts_for_d_2" ->
                  Return("CameraSystem.bp_accounts_for_d_2",
                         bp_accounts_for_d_2(self))
           [] cls = "CameraSystem" /\ name = "is_transient" ->
                  Return("CameraSystem.is_transient", is_transient(self))
           [] cls = "CameraSystem" /\ name = "implements_projector" ->
                  Return("CameraSystem.implements_projector",
                         implements_projector(self))

(***************************************************************************)
(* The reconstruction engine: configured with one CameraSystem member,     *)
(* it queries the member's flags; a later run selects a member again.      *)
(***************************************************************************)
\* queries the engine makes in one run, at most
MaxCalls == 4

Queries == Methods["CameraSystem"]

NoPrev == [cam |-> "NONE", bp |-> FALSE, tr |-> FALSE, pr |-> FALSE]

Asked == \A q \in Queries : first[q] # {}

\* the one value a query answered first
TheFirst(q) == CHOOSE v \in first[q] : TRUE

\* bookkeeping of a query's outcome; the member itself is left as it is
Answer(q) ==
    LET r == Invoke("CameraSystem", cam, q)
    IN  /\ ncalls < MaxCalls
        /\ ncalls' = ncalls + 1
        /\ ret' = r
        /\ first' = [first EXCEPT ![q] = IF @ = {} /\ r.outcome = "return"
                                         THEN {r.val} ELSE @]

Call_bp_accounts_for_d_2 ==
    /\ Answer("bp_accounts_for_d_2")
    /\ UNCHANGED <<cam, cam0, prev>>
    /\ UNCHANGED <<layoutVars, formatVars>>

Call_is_transient_Degrading ==
    /\ Answer("is_transient")
    /\ cam' = IF cam = "TRANSIENT" THEN "TRANSIENT_T0" ELSE cam
    /\ UNCHANGED <<cam0, prev>>
    /\ UNCHANGED <<layoutVars, formatVars>>

Call_is_transient ==
    /\ Answer("is_transient")
    /\ UNCHANGED <<cam, cam0, prev>>
    /\ UNCHANGED <<layoutVars, formatVars>>

Call_implements_projector ==
    /\ Answer("implements_projector")
    /\ UNCHANGED <<cam, cam0, prev>>
    /\ UNCHANGED <<layoutVars, formatVars>>

\* a new run: the flags of the finished run are kept, a member is selected
Reconfigure ==
    /\ Asked
    /\ prev' = [cam |-> cam,
                bp  |-> TheFirst("bp_accounts_for_d_2"),
                tr  |-> TheFirst("is_transient"),
                pr  |-> TheFirst("implements_projector")]
    /\ \E c \in Members(CameraSystem) : cam' = c /\ cam0' = c
    /\ first' = [q \in Queries |-> {}]
    /\ ncalls' = 0
    /\ ret' = NoCall
    /\ UNCHANGED <<layoutVars, formatVars>>

InitLayoutIdle == hfmt = "UNKNOWN" /\ gfmt = "UNKNOWN" /\ vfmt = "UNKNOWN"

InitFormatIdle ==
    declaredFormat = "AUTODETECT" /\ fileExt = "other" /\ fileMarker = "NONE"

InitCameraIdle ==
    /\ cam = "DIRECT_LIGHT" /\ cam0 = "DIRECT_LIGHT"
    /\ first = [q \in Queries |-> {}]
    /\ prev = NoPrev
    /\ ncalls = 0

InitCamera ==
    /\ \E c \in Members(CameraSystem) : cam = c /\ cam0 = c
    /\ first = [q \in Queries |-> {}]
    /\ prev = NoPrev
    /\ ncalls = 0
    /\ InitLayoutIdle
    /\ InitFormatIdle
    /\ ret = NoCall

NextCamera ==
    \/ Call_bp_accounts_for_d_2
    \/ Call_is_transient
    \/ Call_implements_projector
    \/ Reconfigure

SpecCamera == InitCamera /\ [][NextCamera]_vars

(***************************************************************************)
(* The consumer of the array layouts: holds one member of each layout      *)
(* enumeration and calls the introspection query on it.                    *)
(***************************************************************************)
Call_time_dim ==
    /\ ret' = Invoke("HFormat", hfmt, "time_dim")
    /\ UNCHANGED <<layoutVars, camVars, formatVars>>

Call_Volume_xyz_dim_is_last ==
    /\ ret' = Invoke("VolumeFormat", vfmt, "xyz_dim_is_last")
    /\ UNCHANGED <<layoutVars, camVars, formatVars>>

Call_Grid_xyz_dim_is_last ==
    /\ ret' = Invoke("GridFormat", gfmt, "xyz_dim_is_last")
    /\ UNCHANGED <<layoutVars, camVars, formatVars>>

InitLayout ==
    /\ hfmt \in Members(HFormat)
    /\ gfmt \in Members(GridFormat)
    /\ vfmt \in Members(VolumeFormat)
    /\ InitCameraIdle
    /\ InitFormatIdle
    /\ ret = NoCall

NextLayout ==
    \/ Call_time_dim
    \/ Call_Volume_xyz_dim_is_last
    \/ Call_Grid_xyz_dim_is_last

SpecLayout == InitLayout /\ [][NextLayout]_vars

(***************************************************************************)
(* The format catalog's resolve(path, declaredFormat), as the loader calls *)
(* it.  A file is its extension and the format whose structural markers    *)
(* it contains ("NONE" when it contains none).                             *)
(***************************************************************************)
Extensions == {"h5", "mat", "other"}

Markers == (Members(FileFormat) \ {"AUTODETECT"}) \cup {"NONE"}

\* the formats that share the container type an extension names
Family(ext) ==
    CASE ext = "h5"  -> {"HDF5_ZNLOS", "HDF5_NLOS_DIRAC", "HDF5_TAL"}
      [] ext = "mat" -> {"MAT_PHASOR_FIELDS", "MAT_PHASOR_FIELD_DIFFRACTION"}
      [] OTHER       -> {}

resolve_AlwaysSniffing(ext, marker, declared) ==
    IF marker \in Family(ext)
    THEN Return("resolve", marker)
    ELSE IF declared # "AUTODETECT"
         THEN Return("resolve", declared)
         ELSE Raise("resolve", "FormatResolutionError")

resolve(ext, marker, declared) ==
    IF declared # "AUTODETECT"
    THEN Return("resolve", declared)
    ELSE IF marker \in Family(ext)
         THEN Return("resolve", marker)
         ELSE Raise("resolve", "FormatResolutionError")

Call_resolve ==
    /\ ret' = resolve(fileExt, fileMarker, declaredFormat)
    /\ UNCHANGED <<formatVars, camVars, layoutVars>>

InitFormat ==
    /\ declaredFormat \in Members(FileFormat)
    /\ fileExt \in Extensions
    /\ fileMarker \in Markers
    /\ InitCameraIdle
    /\ InitLayoutIdle
    /\ ret = NoCall

NextFormat == Call_resolve

SpecFormat == InitFormat /\ [][NextFormat]_vars

(***************************************************************************)
(* Properties.                                                             *)
(***************************************************************************)
Op(cls, q) == cls \o "." \o q

\* the table of the specification, section 3:
\* variant -> (accountsForInverseSquareFalloff, isTransient, implementsProjector)
SpecTable ==
    [DIRECT_LIGHT        |-> <<TRUE,  FALSE, FALSE>>,
     CONFOCAL_TIME_GATED |-> <<TRUE,  TRUE,  FALSE>>,
     TRANSIENT           |-> <<FALSE, TRUE,  FALSE>>,
     TRANSIENT_T0        |-> <<FALSE, FALSE, FALSE>>,
     PROJECTOR_CAMERA    |-> <<TRUE,  TRUE,  TRUE>>,
     PROJECTOR_CAMERA_T0 |-> <<TRUE,  FALSE, TRUE>>]

Column == [bp_accounts_for_d_2 |-> 1, is_transient |-> 2,
           implements_projector |-> 3]

\* C1: every query on every one of the six variants returns (never raises)
\* the boolean that the specification's table gives for that variant, and
\* every first answer recorded in the run is the table's too.
C1_FlagTable ==
    \A q \in Queries :
        /\ ret.op = Op("CameraSystem", q) =>
               /\ ret.outcome = "return"
               /\ ret.val \in BOOLEAN
               /\ ret.val = SpecTable[cam][Column[q]]
        /\ first[q] \subseteq {SpecTable[cam][Column[q]]}

C1_Witness ==
    /\ Asked
    /\ cam = "PROJECTOR_CAMERA_T0"
    /\ prev.cam = "TRANSIENT_T0"
    /\ ret.op = "CameraSystem.is_transient"

\* C2: time_dim called on any HFormat member other than UNKNOWN returns 0.
C2_TimeDimIsZero ==
    (ret.op = "HFormat.time_dim" /\ hfmt # "UNKNOWN") =>
        (ret.outcome = "return" /\ ret.val = 0)

C2_Witness ==
    ret.op = "HFormat.time_dim" /\ hfmt = "T_Li_Si" /\ ret.outcome = "return"

\* C3: time_dim called on UNKNOWN ends in the failed precondition (the
\* assertion's error) and returns no axis index.
C3_TimeDimUnknownFails ==
    (ret.op = "HFormat.time_dim" /\ hfmt = "UNKNOWN") =>
        (ret.outcome = "raise" /\ ret.val = "AssertionError")

C3_Witness ==
    ret.op = "HFormat.time_dim" /\ hfmt = "UNKNOWN" /\ ret.outcome = "raise"

\* C4: VolumeFormat.xyz_dim_is_last returns true on N_3, X_Y_Z_3 and X_Y_3,
\* and on UNKNOWN it fails the precondition and returns nothing.
C4_VolumeXyzDimIsLast ==
    ret.op = "VolumeFormat.xyz_dim_is_last" =>
        IF vfmt = "UNKNOWN"
        THEN ret.outcome = "raise" /\ ret.val = "AssertionError"
        ELSE ret.outcome = "return" /\ ret.val = TRUE

C4_Witness ==
    /\ ret.op = "VolumeFormat.xyz_dim_is_last"
    /\ vfmt = "UNKNOWN"
    /\ ret.outcome = "raise"

\* C5: GridFormat answers xyz_dim_is_last like VolumeFormat does: true on
\* N_3 and X_Y_3, a failure on UNKNOWN.
C5_GridXyzDimIsLast ==
    ret.op = "GridFormat.xyz_dim_is_last" =>
        IF gfmt = "UNKNOWN"
        THEN ret.outcome = "raise"
        ELSE ret.outcome = "return" /\ ret.val = TRUE

\* C6: resolve returns a concrete declared format unchanged whatever the
\* file's extension and markers are, and never returns AUTODETECT.
C6_ResolveTrustsDeclared ==
    ret.op = "resolve" =>
        /\ declaredFormat # "AUTODETECT" =>
               ret = Return("resolve", declaredFormat)
        /\ ret.outcome = "return" => ret.val # "AUTODETECT"

C6_Witness ==
    /\ ret.op = "resolve"
    /\ declaredFormat = "HDF5_TAL"
    /\ fileExt = "mat"
    /\ fileMarker = "MAT_PHASOR_FIELDS"

T0Pairs ==
    {<<"DIRECT_LIGHT", "CONFOCAL_TIME_GATED">>,
     <<"TRANSIENT_T0", "TRANSIENT">>,
     <<"PROJECTOR_CAMERA_T0", "PROJECTOR_CAMERA">>}

\* C8: when one run used a t=0 variant and the next its time-resolved base
\* (or the other way round), is_transient was false on the t=0 variant and
\* true on the base, and the other two flags were the same in both runs.
C8_T0DiffersOnlyInTransient ==
    \A p \in T0Pairs :
        /\ (prev.cam = p[1] /\ cam = p[2] /\ Asked) =>
               /\ ~prev.tr /\ first["is_transient"] = {TRUE}
               /\ first["bp_accounts_for_d_2"] = {prev.bp}
               /\ first["implements_projector"] = {prev.pr}
        /\ (prev.cam = p[2] /\ cam = p[1] /\ Asked) =>
               /\ prev.tr /\ first["is_transient"] = {FALSE}
               /\ first["bp_accounts_for_d_2"] = {prev.bp}
               /\ first["implements_projector"] = {prev.pr}

C8_Witness ==
    prev.cam = "TRANSIENT_T0" /\ cam = "TRANSIENT" /\ Asked

\* C9: a variant that answers implements_projector with true answers
\* bp_accounts_for_d_2 with true.
C9_ProjectorImpliesD2 ==
    (first["implements_projector"] = {TRUE}
       /\ first["bp_accounts_for_d_2"] # {}) =>
        first["bp_accounts_for_d_2"] = {TRUE}

C9_Witness ==
    /\ cam = "PROJECTOR_CAMERA_T0"
    /\ first["implements_projector"] = {TRUE}
    /\ first["bp_accounts_for_d_2"] = {TRUE}

\* C10: two runs configured with distinct variants never answer the same
\* three flags.
C10_FlagsIdentifyVariant ==
    (prev.cam # "NONE" /\ prev.cam # cam /\ Asked) =>
        <<first["bp_accounts_for_d_2"], first["is_transient"],
          first["implements_projector"]>>
            # <<{prev.bp}, {prev.tr}, {prev.pr}>>

C10_Witness ==
    prev.cam = "DIRECT_LIGHT" /\ cam = "PROJECTOR_CAMERA_T0" /\ Asked

====
